---- MODULE Spec2Model ----
(***************************************************************************)
(* The server side of the grpc-node native bridge,                         *)
(* packages/grpc-native-core/ext/server.cc: the Server wrapper object, the *)
(* two operation kinds it submits (NewCallOp, ServerShutdownOp), the tags  *)
(* that carry them through the completion queue, the dispatcher that       *)
(* drains the queue and the host thread that runs the continuations.       *)
(*                                                                         *)
(* server.cc is modelled from its source.  The completion-queue dispatcher *)
(* (completion_queue.cc, call.cc) and the native engine (grpc core) are    *)
(* not part of the source tree at hand; they are modelled from the         *)
(* specification's description of them (sections 4.2, 4.3 and 5).          *)
(***************************************************************************)
EXTENDS Naturals, Integers, Sequences, FiniteSets, TLC

\* ---------------------------------------------------------------- bounds
\* Number of tags (operations) the host submits in one run.
MaxTags == 3

Servers == {"s1"}
TagIds == 1..MaxTags
NULL == 0

VARIABLES
  srv,              \* Server objects: the C++ wrapper and what the host holds
  eng,              \* the native grpc_server behind each wrapper
  tags,             \* struct tag, by allocation number
  nextTag,          \* number of the next tag to allocate
  cq,               \* the native completion queue: completed events, in order
  pending_batches,  \* nudges of the dispatcher not yet consumed
  hostQueue,        \* continuation invocations marshalled to the host thread
  observed,         \* tags in the order the dispatcher drained them
  invoked,          \* continuation invocations in the order the host ran them
  uaf,              \* a destroyed Server was dereferenced
  threw             \* a continuation raised an error on the host thread

vars == <<srv, eng, tags, nextTag, cq, pending_batches, hostQueue, observed,
          invoked, uaf, threw>>

\* ------------------------------------------------------------ Server object

\* Server::Server: wrapped_server(server), is_shutdown(false); the
\* Persistent running_self_ref starts empty.  starts and releases are history
\* counters: starts is "never", "once" or "again" (start() was called more
\* than once), releases counts the times the self-reference went from held to
\* released.
Server ==
  [state |-> "live", is_shutdown |-> FALSE, running_self_ref |-> FALSE,
   starts |-> "never", releases |-> 0]

\* grpc_server_create + grpc_server_register_completion_queue (Server::New).
grpc_server_create ==
  [started |-> FALSE, shutdown_flag |-> FALSE, calls |-> 0,
   shutdown_and_notify |-> 0, cancel_all_calls |-> 0, destroyed |-> 0]

NoTag ==
  [kind |-> "none", server |-> "s1", callback |-> "none", status |-> "unused",
   call |-> NULL]

Init ==
  /\ srv = [s \in Servers |-> Server]
  /\ eng = [s \in Servers |-> grpc_server_create]
  /\ tags = [t \in TagIds |-> NoTag]
  /\ nextTag = 1
  /\ cq = <<>>
  /\ pending_batches = 0
  /\ hostQueue = <<>>
  /\ observed = <<>>
  /\ invoked = <<>>
  /\ uaf = FALSE
  /\ threw = FALSE

\* ------------------------------------------------- operations (pure parts)

\* Mutant of FinishShutdown: drops the reference without looking whether it
\* is held, so a second completion releases it a second time.
FinishShutdownUnref(sv) ==
  [sv EXCEPT !.is_shutdown = TRUE,
             !.running_self_ref = FALSE,
             !.releases = @ + 1]

\* Server::FinishShutdown: is_shutdown = true; running_self_ref.Reset().
\* Reset() on an empty Persistent does nothing; releases counts the resets
\* that found the reference held.
FinishShutdown(sv) ==
  [sv EXCEPT !.is_shutdown = TRUE,
             !.running_self_ref = FALSE,
             !.releases = IF sv.running_self_ref THEN @ + 1 ELSE @]

\* Mutant of ServerShutdownOp::OnComplete: an empty hook, as NewCallOp's.
OnCompleteEmpty(sv, success) == sv

\* Mutant of ServerShutdownOp::OnComplete: the success flag is not looked at.
OnCompleteIgnoringSuccess(sv, success) == FinishShutdown(sv)

\* ServerShutdownOp::OnComplete(bool success).
ServerShutdownOp_OnComplete(sv, success) ==
  IF success THEN FinishShutdown(sv) ELSE sv

\* NewCallOp::OnComplete(bool success) {}.
NewCallOp_OnComplete(sv, success) == sv

\* Mutant of NewCallOp::GetNodeValue: the call == NULL test is missing.
GetNodeValueNoNullCheck(tg) == "call"

\* Mutant of NewCallOp::GetNodeValue: the call == NULL test is inverted.
GetNodeValueInverted(tg) ==
  IF tg.call = NULL THEN "call" ELSE "null"

\* NewCallOp::GetNodeValue: null when call == NULL, otherwise the record
\* {call, method, host, deadline, metadata}.
NewCallOp_GetNodeValue(tg) ==
  IF tg.call = NULL THEN "null" ELSE "call"

\* ServerShutdownOp::GetNodeValue: server->handle().  On a destroyed Server
\* the read is of freed memory and the value is whatever is found there.
ServerShutdownOp_GetNodeValue(sv) ==
  IF sv.state = "live" THEN "server" ELSE "garbage"

\* NAN_METHOD(ShutdownCallback): throws unless info[0] is null.  info[0] is
\* the error argument of the continuation, null on success.
ShutdownCallback(success) == ~success

\* --------------------------------------------------------- native engine

grpc_server_start(e) == [e EXCEPT !.started = TRUE]

\* Marks the server as shutting down; the notification itself is delivered
\* later (EngineShutdownOk, EngineShutdownFail).
grpc_server_shutdown_and_notify(e) ==
  [e EXCEPT !.shutdown_flag = TRUE, !.shutdown_and_notify = @ + 1]

\* Fire and forget: produces no completion of its own.
grpc_server_cancel_all_calls(e) == [e EXCEPT !.cancel_all_calls = @ + 1]

grpc_server_destroy(e) == [e EXCEPT !.destroyed = @ + 1]

\* AcceptCall operations of server s the engine holds and has not completed.
PendingCalls(s) ==
  {t \in TagIds : /\ tags[t].kind = "new_call"
                  /\ tags[t].server = s
                  /\ tags[t].status = "pending"}

Min(S) == CHOOSE m \in S : \A n \in S : m <= n

RECURSIVE InOrder(_)
InOrder(S) == IF S = {} THEN <<>> ELSE <<Min(S)>> \o InOrder(S \ {Min(S)})

\* Completion events with success = false for the tags of S, oldest first.
Failures(S) ==
  LET q == InOrder(S) IN [i \in 1..Len(q) |-> [tag |-> q[i], success |-> FALSE]]

\* CompletionQueueNext(): tells the dispatcher there is one more batch to wait
\* for.
CompletionQueueNext == pending_batches' = pending_batches + 1

NewTag(kind, s, cb, st) ==
  [kind |-> kind, server |-> s, callback |-> cb, status |-> st, call |-> NULL]

\* new struct tag(callback, ops, NULL, Null) handed to
\* grpc_server_shutdown_and_notify: the tag is allocated and pending, and the
\* engine fails every AcceptCall it still holds for the server.
ShutdownAndNotify(s, cb) ==
  /\ nextTag <= MaxTags
  /\ tags' = [u \in TagIds |->
                IF u = nextTag THEN NewTag("try_shutdown", s, cb, "pending")
                ELSE IF u \in PendingCalls(s)
                     THEN [tags[u] EXCEPT !.status = "completed"]
                     ELSE tags[u]]
  /\ cq' = cq \o Failures(PendingCalls(s))
  /\ nextTag' = nextTag + 1

\* The host can call a method of the wrapper only while the wrapper exists.
Callable(s) == srv[s].state = "live"

\* ---------------------------------------------------------- host actions

\* The shapes of an argument the host can pass where a callback is expected.
ArgShapes == {"function", "undefined"}

\* What the host can pass as the receiver and as info[0] and info[1].
Receivers == {"Server", "Object"}

Info0Shapes == ArgShapes \cup {"string"}

Info1Shapes == {"ServerCredentials", "undefined"}

HostOps == {"requestCall", "addHttp2Port", "start", "tryShutdown",
            "forceShutdown"}

\* Server::HasInstance
HasInstance(recv) == recv = "Server"

\* The error a NAN_METHOD throws at its boundary checks, "none" when the call
\* passes them.  RequestCall looks at the receiver only.
RequestCallThrows(recv, info0) ==
  IF ~HasInstance(recv) THEN "TypeError" ELSE "none"

AddHttp2PortThrows(recv, info0, info1) ==
  IF ~HasInstance(recv) THEN "TypeError"
  ELSE IF info0 # "string" THEN "TypeError"
  ELSE IF info1 # "ServerCredentials" THEN "TypeError"
  ELSE "none"

StartThrows(recv) == IF ~HasInstance(recv) THEN "TypeError" ELSE "none"

TryShutdownThrows(recv, info0) ==
  IF ~HasInstance(recv) THEN "TypeError"
  ELSE IF info0 # "function" THEN "Error"
  ELSE "none"

ForceShutdownThrows(recv) == IF ~HasInstance(recv) THEN "TypeError" ELSE "none"

Throws(op, recv, info0, info1) ==
  CASE op = "requestCall" -> RequestCallThrows(recv, info0)
    [] op = "addHttp2Port" -> AddHttp2PortThrows(recv, info0, info1)
    [] op = "start" -> StartThrows(recv)
    [] op = "tryShutdown" -> TryShutdownThrows(recv, info0)
    [] op = "forceShutdown" -> ForceShutdownThrows(recv)

\* new Callback(info[0].As<Function>()): As<Function> is an unchecked cast, so
\* a value that is not a function is wrapped as it is and cannot be called.
AsFunction(arg) == IF arg = "function" THEN "user" ELSE "not_callable"

\* Mutant of Server::Start: starting clears is_shutdown.
StartClearsShutdown(s) ==
  /\ Callable(s)
  /\ srv' = [srv EXCEPT ![s].running_self_ref = TRUE,
                        ![s].is_shutdown = FALSE,
                        ![s].starts = IF @ = "never" THEN "once" ELSE "again"]
  /\ eng' = [eng EXCEPT ![s] = grpc_server_start(@)]
  /\ UNCHANGED <<tags, nextTag, cq, pending_batches, hostQueue, observed,
                 invoked, uaf, threw>>

\* NAN_METHOD(Server::Start)
Start(s) ==
  /\ Callable(s)
  /\ srv' = [srv EXCEPT ![s].running_self_ref = TRUE,
                        ![s].starts = IF @ = "never" THEN "once" ELSE "again"]
  /\ eng' = [eng EXCEPT ![s] = grpc_server_start(@)]
  /\ UNCHANGED <<tags, nextTag, cq, pending_batches, hostQueue, observed,
                 invoked, uaf, threw>>

\* Mutant of Server::RequestCall: CompletionQueueNext() is not called.
RequestCallNoNudge(s, arg, error) ==
  /\ Callable(s)
  /\ nextTag <= MaxTags
  /\ nextTag' = nextTag + 1
  /\ IF error # "GRPC_CALL_OK"
       THEN tags' = [tags EXCEPT
                       ![nextTag] = NewTag("new_call", s, AsFunction(arg), "rejected")]
            /\ UNCHANGED cq
       ELSE IF eng[s].shutdown_flag
              THEN /\ tags' = [tags EXCEPT ![nextTag] =
                                 NewTag("new_call", s, AsFunction(arg), "completed")]
                   /\ cq' = Append(cq, [tag |-> nextTag, success |-> FALSE])
              ELSE /\ tags' = [tags EXCEPT ![nextTag] =
                                 NewTag("new_call", s, AsFunction(arg), "pending")]
                   /\ UNCHANGED cq
  /\ UNCHANGED <<srv, eng, pending_batches, hostQueue, observed, invoked, uaf,
                 threw>>

\* Mutant of Server::RequestCall: CompletionQueueNext() is called before the
\* engine's answer is looked at.
RequestCallNudgeFirst(s, arg, error) ==
  /\ Callable(s)
  /\ nextTag <= MaxTags
  /\ nextTag' = nextTag + 1
  /\ CompletionQueueNext
  /\ IF error # "GRPC_CALL_OK"
       THEN tags' = [tags EXCEPT ![nextTag] =
                       NewTag("new_call", s, AsFunction(arg), "rejected")]
            /\ UNCHANGED cq
       ELSE IF eng[s].shutdown_flag
              THEN /\ tags' = [tags EXCEPT ![nextTag] =
                                 NewTag("new_call", s, AsFunction(arg),
                                        "completed")]
                   /\ cq' = Append(cq, [tag |-> nextTag, success |-> FALSE])
              ELSE /\ tags' = [tags EXCEPT ![nextTag] =
                                 NewTag("new_call", s, AsFunction(arg),
                                        "pending")]
                   /\ UNCHANGED cq
  /\ UNCHANGED <<srv, eng, hostQueue, observed, invoked, uaf, threw>>

\* What Server::RequestCall throws after the submission:
\* nanErrorWithCode("requestCall failed", error) unless the engine answered
\* GRPC_CALL_OK.
RequestCallError(error) ==
  IF error # "GRPC_CALL_OK"
    THEN [name |-> "Error", message |-> "requestCall failed", code |-> error]
    ELSE [name |-> "none", message |-> "", code |-> error]

\* NAN_METHOD(Server::RequestCall) on a Server.  arg is the shape of info[0],
\* which is wrapped in a Callback without being looked at; error is what
\* grpc_server_request_call returns.
RequestCall(s, arg, error) ==
  /\ Callable(s)
  /\ nextTag <= MaxTags
  /\ nextTag' = nextTag + 1
  /\ IF error # "GRPC_CALL_OK"
       THEN /\ tags' = [tags EXCEPT
                          ![nextTag] = NewTag("new_call", s, AsFunction(arg), "rejected")]
            /\ UNCHANGED <<cq, pending_batches>>
       ELSE /\ IF eng[s].shutdown_flag
                 THEN /\ tags' = [tags EXCEPT ![nextTag] =
                                    NewTag("new_call", s, AsFunction(arg), "completed")]
                      /\ cq' = Append(cq, [tag |-> nextTag, success |-> FALSE])
                 ELSE /\ tags' = [tags EXCEPT ![nextTag] =
                                    NewTag("new_call", s, AsFunction(arg), "pending")]
                      /\ UNCHANGED cq
            /\ CompletionQueueNext
  /\ UNCHANGED <<srv, eng, hostQueue, observed, invoked, uaf, threw>>

\* Mutant of Server::TryShutdown: CompletionQueueNext() is not called.
TryShutdownNoNudge(s) ==
  /\ Callable(s)
  /\ ShutdownAndNotify(s, "user")
  /\ eng' = [eng EXCEPT ![s] = grpc_server_shutdown_and_notify(@)]
  /\ UNCHANGED <<srv, pending_batches, hostQueue, observed, invoked, uaf,
                 threw>>

\* Mutant of Server::TryShutdown: grpc_server_cancel_all_calls is called too,
\* as in ShutdownServer.
TryShutdownCancelsAll(s) ==
  /\ Callable(s)
  /\ ShutdownAndNotify(s, "user")
  /\ eng' = [eng EXCEPT ![s] = grpc_server_cancel_all_calls(
                                  grpc_server_shutdown_and_notify(@))]
  /\ CompletionQueueNext
  /\ UNCHANGED <<srv, hostQueue, observed, invoked, uaf, threw>>

\* NAN_METHOD(Server::TryShutdown) with a function argument.
TryShutdown(s) ==
  /\ Callable(s)
  /\ ShutdownAndNotify(s, "user")
  /\ eng' = [eng EXCEPT ![s] = grpc_server_shutdown_and_notify(@)]
  /\ CompletionQueueNext
  /\ UNCHANGED <<srv, hostQueue, observed, invoked, uaf, threw>>

\* Mutant of Server::ShutdownServer: the is_shutdown guard is missing.
ShutdownServerUnguarded(s) ==
  /\ ShutdownAndNotify(s, "shutdown_cb")
  /\ eng' = [eng EXCEPT ![s] = grpc_server_cancel_all_calls(
                                  grpc_server_shutdown_and_notify(@))]
  /\ CompletionQueueNext
  /\ UNCHANGED <<srv, hostQueue, observed, invoked, uaf, threw>>

\* Mutant of Server::ShutdownServer: FinishShutdown() runs right after the
\* submission instead of at its completion.
ShutdownServerFinishesAtOnce(s) ==
  IF ~srv[s].is_shutdown
    THEN /\ ShutdownAndNotify(s, "shutdown_cb")
         /\ eng' = [eng EXCEPT ![s] = grpc_server_cancel_all_calls(
                                         grpc_server_shutdown_and_notify(@))]
         /\ CompletionQueueNext
         /\ srv' = [srv EXCEPT ![s] = FinishShutdown(@)]
         /\ UNCHANGED <<hostQueue, observed, invoked, uaf, threw>>
    ELSE UNCHANGED vars

\* Server::ShutdownServer
ShutdownServer(s) ==
  IF ~srv[s].is_shutdown
    THEN /\ ShutdownAndNotify(s, "shutdown_cb")
         /\ eng' = [eng EXCEPT ![s] = grpc_server_cancel_all_calls(
                                         grpc_server_shutdown_and_notify(@))]
         /\ CompletionQueueNext
         /\ UNCHANGED <<srv, hostQueue, observed, invoked, uaf, threw>>
    ELSE UNCHANGED vars

\* NAN_METHOD(Server::ForceShutdown)
ForceShutdown(s) ==
  /\ Callable(s)
  /\ ShutdownServer(s)

\* NAN_METHOD(Server::AddHttp2Port) with a Server, a string and credentials:
\* the engine binds the port and the port number is returned.  Listening
\* ports are not part of the state kept here.
AddHttp2Port(s) ==
  /\ Callable(s)
  /\ UNCHANGED vars

\* The host calls the boundary checks stop.
RejectedCalls ==
  {c \in HostOps \X Receivers \X Info0Shapes \X Info1Shapes :
     Throws(c[1], c[2], c[3], c[4]) # "none"}

\* A host call that one of the boundary checks stops: the method returns
\* right after Nan::ThrowTypeError or Nan::ThrowError.
Rejected ==
  /\ RejectedCalls # {}
  /\ UNCHANGED vars

\* A marshalled continuation invocation whose value is the wrapper keeps it
\* reachable.
HeldByQueue(s) ==
  \E i \in 1..Len(hostQueue) :
    hostQueue[i].value = "server" /\ tags[hostQueue[i].tag].server = s

\* The host program lets go of the wrapper and the garbage collector reclaims
\* it, which it can only while nothing else holds it: Server::~Server runs
\* grpc_server_destroy(wrapped_server).
Reclaim(s) ==
  /\ srv[s].state = "live"
  /\ ~srv[s].running_self_ref
  /\ ~HeldByQueue(s)
  /\ srv' = [srv EXCEPT ![s].state = "reclaimed"]
  /\ eng' = [eng EXCEPT ![s] = grpc_server_destroy(@)]
  /\ UNCHANGED <<tags, nextTag, cq, pending_batches, hostQueue, observed,
                 invoked, uaf, threw>>

\* ------------------------------------------------------- engine actions

\* An inbound call is matched to a pending AcceptCall: the engine fills
\* op->call and the details and posts the tag with success = true.
CallArrives(t) ==
  /\ tags[t].kind = "new_call"
  /\ tags[t].status = "pending"
  /\ eng[tags[t].server].started
  /\ ~eng[tags[t].server].shutdown_flag
  /\ tags' = [tags EXCEPT ![t].status = "completed", ![t].call = t]
  /\ cq' = Append(cq, [tag |-> t, success |-> TRUE])
  /\ eng' = [eng EXCEPT ![tags[t].server].calls = @ + 1]
  /\ UNCHANGED <<srv, nextTag, pending_batches, hostQueue, observed, invoked,
                 uaf, threw>>

\* An accepted call finishes (or is cancelled) at the Call collaborator.
CallEnds(s) ==
  /\ eng[s].calls > 0
  /\ eng' = [eng EXCEPT ![s].calls = @ - 1]
  /\ UNCHANGED <<srv, tags, nextTag, cq, pending_batches, hostQueue, observed,
                 invoked, uaf, threw>>

\* The server has drained: the engine posts the shutdown tag with success.
EngineShutdownOk(t) ==
  /\ tags[t].kind = "try_shutdown"
  /\ tags[t].status = "pending"
  /\ eng[tags[t].server].calls = 0
  /\ tags' = [tags EXCEPT ![t].status = "completed"]
  /\ cq' = Append(cq, [tag |-> t, success |-> TRUE])
  /\ UNCHANGED <<srv, eng, nextTag, pending_batches, hostQueue, observed,
                 invoked, uaf, threw>>

\* The engine posts the shutdown tag with success = false.
EngineShutdownFail(t) ==
  /\ tags[t].kind = "try_shutdown"
  /\ tags[t].status = "pending"
  /\ tags' = [tags EXCEPT ![t].status = "completed"]
  /\ cq' = Append(cq, [tag |-> t, success |-> FALSE])
  /\ UNCHANGED <<srv, eng, nextTag, pending_batches, hostQueue, observed,
                 invoked, uaf, threw>>

\* ------------------------------------------------------------ dispatcher

\* The Server records the completion hook of tag tg can leave behind.  A hook
\* that runs on a destroyed Server writes to freed memory: the write may land
\* in the dead object or be lost.
HookOutcomes(tg, success) ==
  LET s == tg.server IN
  IF tg.kind = "new_call"
    THEN {[srv EXCEPT ![s] = NewCallOp_OnComplete(@, success)]}
    ELSE IF srv[s].state = "live" \/ ~success
           THEN {[srv EXCEPT ![s] = ServerShutdownOp_OnComplete(@, success)]}
           ELSE {[srv EXCEPT ![s] = ServerShutdownOp_OnComplete(@, success)],
                 srv}

\* The result value the dispatcher collects from the tag's operation.
GetNodeValue(tg) ==
  IF tg.kind = "new_call"
    THEN NewCallOp_GetNodeValue(tg)
    ELSE ServerShutdownOp_GetNodeValue(srv[tg.server])

\* The ServerShutdownOp of tg dereferences a destroyed Server.
Dangling(tg) ==
  tg.kind = "try_shutdown" /\ srv[tg.server].state # "live"

\* One turn of the draining loop: take the next event, run the hooks with the
\* event's success flag, collect the result value, marshal the continuation
\* invocation to the host thread, free the tag.
Dispatch ==
  /\ cq # <<>>
  /\ pending_batches > 0
  /\ LET ev == Head(cq)
         tg == tags[ev.tag]
     IN /\ srv' \in HookOutcomes(tg, ev.success)
        /\ hostQueue' = Append(hostQueue,
                               [tag |-> ev.tag, success |-> ev.success,
                                value |-> GetNodeValue(tg)])
        /\ tags' = [tags EXCEPT ![ev.tag].status = "freed"]
        /\ observed' = Append(observed, ev.tag)
        /\ uaf' = (uaf \/ Dangling(tg))
  /\ cq' = Tail(cq)
  /\ pending_batches' = pending_batches - 1
  /\ UNCHANGED <<eng, nextTag, invoked, threw>>

\* Mutant of the host hand-off: the newest marshalled continuation runs
\* first.
InvokeContinuationNewestFirst ==
  /\ hostQueue # <<>>
  /\ LET c == hostQueue[Len(hostQueue)]
     IN /\ invoked' = Append(invoked, c)
        /\ threw' = (\/ threw
                     \/ tags[c.tag].callback = "not_callable"
                     \/ (/\ tags[c.tag].callback = "shutdown_cb"
                         /\ ShutdownCallback(c.success)))
  /\ hostQueue' = SubSeq(hostQueue, 1, Len(hostQueue) - 1)
  /\ UNCHANGED <<srv, eng, tags, nextTag, cq, pending_batches, observed, uaf>>

\* The host thread runs the next marshalled continuation.  The internal
\* continuation of forceShutdown is ShutdownCallback; calling a value that is
\* not a function raises an error.
InvokeContinuation ==
  /\ hostQueue # <<>>
  /\ LET c == Head(hostQueue)
     IN /\ invoked' = Append(invoked, c)
        /\ threw' = (\/ threw
                     \/ tags[c.tag].callback = "not_callable"
                     \/ (/\ tags[c.tag].callback = "shutdown_cb"
                         /\ ShutdownCallback(c.success)))
  /\ hostQueue' = Tail(hostQueue)
  /\ UNCHANGED <<srv, eng, tags, nextTag, cq, pending_batches, observed, uaf>>

\* -------------------------------------------------------- specifications

Next ==
  \/ \E s \in Servers : Start(s)
  \/ \E s \in Servers : \E e \in {"GRPC_CALL_OK", "GRPC_CALL_ERROR"} :
       \E a \in ArgShapes : RequestCall(s, a, e)
  \/ \E s \in Servers : TryShutdown(s)
  \/ \E s \in Servers : ForceShutdown(s)
  \/ \E s \in Servers : AddHttp2Port(s)
  \/ Rejected
  \/ \E s \in Servers : Reclaim(s)
  \/ \E t \in TagIds : CallArrives(t)
  \/ \E s \in Servers : CallEnds(s)
  \/ \E t \in TagIds : EngineShutdownOk(t)
  \/ \E t \in TagIds : EngineShutdownFail(t)
  \/ Dispatch
  \/ InvokeContinuation

Spec == Init /\ [][Next]_vars

\* The engine works normally (no shutdown notification fails) and the engine,
\* the dispatcher and the host thread are scheduled fairly.
LiveNext ==
  \/ \E s \in Servers : Start(s)
  \/ \E s \in Servers : \E e \in {"GRPC_CALL_OK", "GRPC_CALL_ERROR"} :
       \E a \in ArgShapes : RequestCall(s, a, e)
  \/ \E s \in Servers : TryShutdown(s)
  \/ \E s \in Servers : ForceShutdown(s)
  \/ \E s \in Servers : AddHttp2Port(s)
  \/ Rejected
  \/ \E s \in Servers : Reclaim(s)
  \/ \E t \in TagIds : CallArrives(t)
  \/ \E s \in Servers : CallEnds(s)
  \/ \E t \in TagIds : EngineShutdownOk(t)
  \/ Dispatch
  \/ InvokeContinuation

Fairness ==
  /\ WF_vars(Dispatch)
  /\ WF_vars(InvokeContinuation)
  /\ WF_vars(\E t \in TagIds : EngineShutdownOk(t))

LiveSpec == Init /\ [][LiveNext]_vars /\ Fairness

TypeOK ==
  /\ nextTag \in 1..(MaxTags + 1)
  /\ pending_batches \in 0..MaxTags
  /\ \A s \in Servers : srv[s].state \in {"live", "reclaimed"}

\* ------------------------------------------------------ shared vocabulary

Count(q, t) == Cardinality({i \in 1..Len(q) : q[i] = t})

InvokedTags == [i \in 1..Len(invoked) |-> invoked[i].tag]

QueuedTags == [i \in 1..Len(hostQueue) |-> hostQueue[i].tag]

\* The engine took the tag (it did not reject the submission).
Accepted(t) == tags[t].status \in {"pending", "completed", "freed"}

\* Submitted and its completion not yet processed by the dispatcher.
Outstanding(t) == tags[t].status \in {"pending", "completed"}

IsCall(t) == tags[t].kind = "new_call"

IsShutdown(t) == tags[t].kind = "try_shutdown"

InvokedWith(t, success) ==
  \E i \in 1..Len(invoked) : invoked[i].tag = t /\ invoked[i].success = success

\* Shutdown-notify tags of server s still outstanding.
OutstandingShutdowns(s) ==
  {t \in TagIds : IsShutdown(t) /\ tags[t].server = s /\ Outstanding(t)}

\* ------------------------------------------------------------------- C1
\* C1: every tag the engine accepted is observed by the dispatcher at most
\* once and exactly once by the time it is freed, a tag the engine did not
\* take is never observed, a continuation runs at most once per tag and only
\* for an observed tag, and the dispatcher has been nudged for every
\* completion waiting in the queue, so none is left unobserved.
C1_TagDeliveredOnce ==
  /\ \A t \in TagIds :
       /\ Count(observed, t) <= 1
       /\ Count(InvokedTags, t) <= 1
       /\ Count(InvokedTags, t) + Count(QueuedTags, t) = Count(observed, t)
       /\ (tags[t].status = "freed") <=> (Count(observed, t) = 1)
       /\ ~Accepted(t) => Count(observed, t) = 0
  /\ Len(cq) <= pending_batches
  /\ \A i \in 1..Len(cq) : tags[cq[i].tag].status = "completed"

\* A tag from each of requestCall, tryShutdown and forceShutdown has been
\* observed and its continuation has run.
C1_Witness ==
  \E a, b, c \in TagIds :
    /\ IsCall(a) /\ tags[b].callback = "user" /\ IsShutdown(b)
    /\ tags[c].callback = "shutdown_cb"
    /\ \A t \in {a, b, c} : Count(observed, t) = 1 /\ Count(InvokedTags, t) = 1

\* ------------------------------------------------------------------- C2
\* Tag t carries the first shutdown of a started server, issued by
\* tryShutdown.
C2_FirstTryShutdown(t) ==
  /\ IsShutdown(t)
  /\ tags[t].callback = "user"
  /\ srv[tags[t].server].starts # "never"
  /\ \A u \in TagIds : (IsShutdown(u) /\ u # t) => u > t

\* That tryShutdown has been submitted, is not yet completed, and the server
\* has no call in progress.
C2_TryShutdownIssued(t) ==
  /\ C2_FirstTryShutdown(t)
  /\ tags[t].status = "pending"
  /\ eng[tags[t].server].calls = 0

\* C2: tryShutdown(cb) on a started handle with no pending calls and no
\* earlier shutdown leads to cb being invoked with a success indication, and
\* in every state in which cb has been invoked with success is_shutdown is
\* true.
C2_TryShutdownCompletes ==
  /\ \A s \in Servers :
       (\E t \in TagIds : tags[t].server = s /\ C2_TryShutdownIssued(t))
         ~> (\E t \in TagIds : /\ tags[t].server = s
                                /\ C2_FirstTryShutdown(t)
                                /\ InvokedWith(t, TRUE))
  /\ [](\A t \in TagIds :
          (C2_FirstTryShutdown(t) /\ InvokedWith(t, TRUE))
            => srv[tags[t].server].is_shutdown)

\* The callback of the first tryShutdown of a started server has run with
\* success.
C2_Witness ==
  \E t \in TagIds :
    /\ C2_FirstTryShutdown(t)
    /\ InvokedWith(t, TRUE)
    /\ srv[tags[t].server].is_shutdown

\* ------------------------------------------------------------------- C3
\* C3 (as claimed): tryShutdown on a handle whose is_shutdown is already true
\* allocates no tag, submits nothing to the engine and leaves the handle
\* unchanged.
C3_TryShutdownNoOpWhenShutDown ==
  [][\A s \in Servers :
       (srv[s].is_shutdown /\ TryShutdown(s))
         => (nextTag' = nextTag /\ tags' = tags /\ eng' = eng /\ srv' = srv)]_vars

\* ------------------------------------------------------------------- C4
\* C4 (as claimed): a server never has more than one shutdown-notify tag
\* submitted and not yet processed.
C4_OneOutstandingShutdown ==
  \A s \in Servers : Cardinality(OutstandingShutdowns(s)) <= 1

\* ------------------------------------------------------------------- C5
\* A shutdown notification of server s completed with success = false.
ShutdownFailed(s) ==
  \/ \E i \in 1..Len(hostQueue) :
       /\ IsShutdown(hostQueue[i].tag) /\ tags[hostQueue[i].tag].server = s
       /\ ~hostQueue[i].success
  \/ \E i \in 1..Len(invoked) :
       /\ IsShutdown(invoked[i].tag) /\ tags[invoked[i].tag].server = s
       /\ ~invoked[i].success

\* The host ran a continuation that is not a function.
NotCallableInvoked ==
  \E i \in 1..Len(invoked) : tags[invoked[i].tag].callback = "not_callable"

C6_FailedShutdownKeepsState ==
  [][/\ (/\ cq # <<>>
         /\ IsShutdown(Head(cq).tag)
         /\ ~Head(cq).success
         /\ Dispatch)
        => /\ srv' = srv
           /\ hostQueue' # <<>>
           /\ hostQueue'[Len(hostQueue')].tag = Head(cq).tag
           /\ ~hostQueue'[Len(hostQueue')].success
     /\ (/\ hostQueue # <<>>
         /\ IsShutdown(Head(hostQueue).tag)
         /\ ~Head(hostQueue).success
         /\ InvokeContinuation)
        => /\ srv' = srv
           /\ invoked' # <<>>
           /\ invoked'[Len(invoked')].tag = Head(hostQueue).tag
           /\ ~invoked'[Len(invoked')].success
    ]_vars

\* The continuation of a failed shutdown notification has run on a started
\* handle, which is still not shut down and still holds its self-reference.
C6_Witness ==
  \E t \in TagIds :
    /\ IsShutdown(t)
    /\ InvokedWith(t, FALSE)
    /\ srv[tags[t].server].state = "live"
    /\ ~srv[tags[t].server].is_shutdown
    /\ srv[tags[t].server].running_self_ref

\* ------------------------------------------------------------------- C7
\* An effective forceShutdown (one that submitted its shutdown operation) was
\* called on the server of the AcceptCall tag t after t was submitted.
ForceShutdownAfter(t) ==
  \E u \in TagIds :
    /\ u > t
    /\ tags[u].callback = "shutdown_cb"
    /\ tags[u].server = tags[t].server

\* The AcceptCall operations submitted before a forceShutdown whose
\* continuation has not run.  A tag that is in this set stays in it until its
\* continuation runs.
C7_Unresolved ==
  {t \in TagIds : /\ IsCall(t) /\ Accepted(t) /\ ForceShutdownAfter(t)
                  /\ Count(InvokedTags, t) = 0}

\* C7: the continuation of every AcceptCall submitted before a forceShutdown
\* is eventually invoked (whenever some are unresolved, a state follows in
\* which none is); a handle whose shutdown has finished has no AcceptCall
\* pending; and the continuation of an AcceptCall gets null exactly when no
\* call arrived for it.
C7_PendingCallsResolve ==
  /\ (C7_Unresolved # {}) ~> (C7_Unresolved = {})
  /\ [](\A s \in Servers : srv[s].is_shutdown => PendingCalls(s) = {})
  /\ [](\A i \in 1..Len(invoked) :
          IsCall(invoked[i].tag)
            => /\ (tags[invoked[i].tag].call = NULL) => invoked[i].value = "null"
               /\ (tags[invoked[i].tag].call # NULL) => invoked[i].value = "call")

\* An AcceptCall that was pending at forceShutdown has been resolved with
\* null, and one for which a call had arrived with the call.
C7_Witness ==
  \E t, u \in TagIds :
    /\ IsCall(t) /\ ForceShutdownAfter(t) /\ tags[t].call = NULL
    /\ \E i \in 1..Len(invoked) :
         invoked[i].tag = t /\ invoked[i].value = "null" /\ ~invoked[i].success
    /\ IsCall(u) /\ ForceShutdownAfter(u) /\ tags[u].call # NULL
    /\ \E i \in 1..Len(invoked) :
         invoked[i].tag = u /\ invoked[i].value = "call"

\* ------------------------------------------------------------------- C8
\* A shutdown (graceful or forced) was submitted for the server of tag t after
\* t was submitted.
ShutdownAfter(t) ==
  \E u \in TagIds :
    u > t /\ IsShutdown(u) /\ tags[u].server = tags[t].server

\* AcceptCall tags the engine accepted.
AcceptedCalls == {t \in TagIds : IsCall(t) /\ Accepted(t)}

\* Nothing is in flight any more.
Quiescent ==
  /\ cq = <<>>
  /\ hostQueue = <<>>
  /\ \A t \in TagIds : tags[t].status # "pending"

\* The AcceptCall operations submitted on a started handle before a shutdown
\* whose continuation has not run.  A tag that is in this set stays in it until
\* its continuation runs.
C8_Unresolved ==
  {t \in TagIds : /\ IsCall(t) /\ Accepted(t) /\ ShutdownAfter(t)
                  /\ srv[tags[t].server].starts # "never"
                  /\ Count(InvokedTags, t) = 0}

\* C8: of the AcceptCall operations submitted on a started handle that is then
\* shut down, each one's continuation is eventually invoked, never twice, a
\* rejected submission's never, each with a call record or null; once nothing
\* is in flight the number of AcceptCall continuations invoked is the number
\* of AcceptCall operations submitted.
C8_EveryCallCompletesOnce ==
  /\ (C8_Unresolved # {}) ~> (C8_Unresolved = {})
  /\ [](\A t \in TagIds :
          IsCall(t) => /\ Count(InvokedTags, t) <= 1
                       /\ ~Accepted(t) => Count(InvokedTags, t) = 0)
  /\ [](\A i \in 1..Len(invoked) :
          IsCall(invoked[i].tag) => invoked[i].value \in {"call", "null"})
  /\ [](Quiescent =>
          Cardinality({i \in 1..Len(invoked) : IsCall(invoked[i].tag)})
            = Cardinality(AcceptedCalls))

\* Two AcceptCall operations were submitted on a started handle, the handle
\* was shut down and both continuations have run.
C8_Witness ==
  \E t, u \in TagIds :
    /\ t # u
    /\ IsCall(t) /\ IsCall(u) /\ ShutdownAfter(t) /\ ShutdownAfter(u)
    /\ srv[tags[t].server].starts # "never"
    /\ Count(InvokedTags, t) = 1 /\ Count(InvokedTags, u) = 1
    /\ Quiescent

\* ------------------------------------------------------------------- C9
\* C9: the continuations the host has run, followed by those marshalled and
\* waiting, are the tags in exactly the order the dispatcher observed them.
C9_DeliveryOrder ==
  observed = InvokedTags \o QueuedTags

\* Two continuations have run in the order of observation, which is the
\* reverse of the order of submission.
C9_Witness ==
  /\ Len(invoked) >= 2
  /\ invoked[1].tag > invoked[2].tag
  /\ observed[1] = invoked[1].tag
  /\ observed[2] = invoked[2].tag

\* ------------------------------------------------------------------ C10
\* C10 (as claimed): the native server is destroyed at most once, never while
\* the self-reference is held, and only when is_shutdown is true or no
\* operation submitted against the handle is outstanding.
C10_DestroyOnlyWhenIdle ==
  [][\A s \in Servers :
       Reclaim(s)
         => /\ eng[s].destroyed = 0
            /\ ~srv[s].running_self_ref
            /\ \/ srv[s].is_shutdown
               \/ \A t \in TagIds : tags[t].server = s => ~Outstanding(t)
    ]_vars

\* ------------------------------------------------------------------ C11
\* The marshalled continuation invocations, run or still waiting.
Marshalled == invoked \o hostQueue

\* C11: the result value the dispatcher collects for a completed AcceptCall
\* follows the success flag of the completion: the call record (call, method,
\* host, deadline, metadata) when success = true and the engine filled
\* op->call, null when success = false; and an error on the host thread is
\* never due to an AcceptCall whose continuation is a function.
C11_AcceptCallResult ==
  /\ \A i \in 1..Len(Marshalled) :
       LET c == Marshalled[i] IN
       IsCall(c.tag) =>
         /\ c.value = (IF c.success THEN "call" ELSE "null")
         /\ c.success <=> tags[c.tag].call # NULL
  /\ threw =>
       \/ NotCallableInvoked
       \/ \E i \in 1..Len(invoked) :
            tags[invoked[i].tag].callback = "shutdown_cb"
            /\ ~invoked[i].success

\* One AcceptCall completed with a call and one was failed by a shutdown; both
\* continuations have run and nothing raised.
C11_Witness ==
  \E i, j \in 1..Len(invoked) :
    /\ IsCall(invoked[i].tag) /\ IsCall(invoked[j].tag)
    /\ invoked[i].success /\ invoked[i].value = "call"
    /\ ~invoked[j].success /\ invoked[j].value = "null"
    /\ ~threw

\* ------------------------------------------------------------------ C12
\* The receiver is not a Server or an argument has the wrong shape.
Malformed(op, recv, info0, info1) ==
  \/ recv # "Server"
  \/ op \in {"requestCall", "tryShutdown"} /\ info0 # "function"
  \/ op = "addHttp2Port"
       /\ (info0 # "string" \/ info1 # "ServerCredentials")

\* The step is the host calling op on receiver recv (the wrapper of s when
\* recv is a Server) with arguments of these shapes.
HostCall(op, recv, s, info0, info1, error) ==
  IF Throws(op, recv, info0, info1) # "none"
    THEN <<op, recv, info0, info1>> \in RejectedCalls /\ Rejected
    ELSE CASE op = "requestCall" ->
                info0 \in ArgShapes /\ RequestCall(s, info0, error)
           [] op = "addHttp2Port" -> AddHttp2Port(s)
           [] op = "start" -> Start(s)
           [] op = "tryShutdown" -> TryShutdown(s)
           [] op = "forceShutdown" -> ForceShutdown(s)

\* C12: a host call whose receiver is not a Server or whose argument has the
\* wrong shape throws at the boundary and changes nothing: no tag is
\* allocated, no engine call is made, the dispatcher is not nudged and no
\* Server field changes.
C12_MalformedCallRejected ==
  [][\A op \in HostOps : \A recv \in Receivers : \A s \in Servers :
       \A info0 \in Info0Shapes : \A info1 \in Info1Shapes :
         \A error \in {"GRPC_CALL_OK", "GRPC_CALL_ERROR"} :
           (/\ Malformed(op, recv, info0, info1)
            /\ HostCall(op, recv, s, info0, info1, error))
             => /\ Throws(op, recv, info0, info1) # "none"
                /\ UNCHANGED <<srv, eng, tags, nextTag, cq, pending_batches>>]_vars

\* ------------------------------------------------------------------ C13
\* C13: a requestCall the engine rejects throws an error that carries the
\* engine's code, submits once (one tag, no second attempt), leaves the
\* completion queue and the dispatcher's count of awaited batches as they
\* were, and its tag is never observed by the dispatcher and its continuation
\* never marshalled or run.
C13_RejectedRequestCall ==
  /\ [](\A t \in TagIds :
         tags[t].status = "rejected" =>
           /\ Count(observed, t) = 0
           /\ Count(InvokedTags, t) = 0
           /\ Count(QueuedTags, t) = 0
           /\ \A i \in 1..Len(cq) : cq[i].tag # t)
  /\ [][\A s \in Servers : \A a \in ArgShapes :
         RequestCall(s, a, "GRPC_CALL_ERROR") =>
           /\ RequestCallError("GRPC_CALL_ERROR").name = "Error"
           /\ RequestCallError("GRPC_CALL_ERROR").code = "GRPC_CALL_ERROR"
           /\ nextTag' = nextTag + 1
           /\ tags'[nextTag].status = "rejected"
           /\ \A t \in TagIds \ {nextTag} : tags'[t] = tags[t]
           /\ UNCHANGED <<cq, pending_batches, hostQueue, eng, srv>>]_vars
  /\ [][\A t \in TagIds :
         tags[t].status = "rejected" => tags'[t] = tags[t]]_vars

\* A requestCall was rejected, a later submission has been completed,
\* dispatched and its continuation run, and nothing is left to deliver.
C13_Witness ==
  \E t, u \in TagIds :
    /\ t < u
    /\ tags[t].status = "rejected"
    /\ Count(InvokedTags, u) = 1
    /\ cq = <<>> /\ hostQueue = <<>> /\ pending_batches = 0

\* ------------------------------------------------------------------ C14
\* A tag has been allocated with new struct tag(...).
Allocated(t) == tags[t].status # "unused"

\* C14: a tag is freed only once its completion has been processed, and
\* processed exactly once; and when no submitted work is outstanding every
\* allocated tag has been freed.
C14_TagFreedExactlyOnce ==
  /\ \A t \in TagIds : tags[t].status = "freed" => Count(observed, t) = 1
  /\ (\A t \in TagIds : ~Outstanding(t))
       => \A t \in TagIds : Allocated(t) => tags[t].status = "freed"

\* ------------------------------------------------------------------ C15
\* The lifecycle state of a handle, read off what the code keeps: is_shutdown
\* in the Server, and in the engine whether grpc_server_start and
\* grpc_server_shutdown_and_notify have been called.
Lifecycle(s) ==
  IF srv[s].is_shutdown THEN "ShutDown"
  ELSE IF eng[s].shutdown_flag THEN "ShuttingDown"
  ELSE IF eng[s].started THEN "Started"
  ELSE "Created"

Rank(l) ==
  CASE l = "Created" -> 0
    [] l = "Started" -> 1
    [] l = "ShuttingDown" -> 2
    [] l = "ShutDown" -> 3

\* C15: no step moves the lifecycle state of a handle backwards; start takes
\* Created to Started; a tryShutdown or forceShutdown that submits on a
\* handle not yet ShutDown leaves it ShuttingDown; and the state becomes
\* ShutDown only in a step where the dispatcher processes a shutdown
\* notification of that handle that completed with success.
C15_LifecycleForward ==
  [][\A s \in Servers :
       /\ Rank(Lifecycle(s)') >= Rank(Lifecycle(s))
       /\ (Start(s) /\ Lifecycle(s) = "Created") => Lifecycle(s)' = "Started"
       /\ ((TryShutdown(s) \/ ForceShutdown(s)) /\ Lifecycle(s) # "ShutDown")
            => Lifecycle(s)' = "ShuttingDown"
       /\ (Lifecycle(s) # "ShutDown" /\ Lifecycle(s)' = "ShutDown")
            => /\ Dispatch
               /\ IsShutdown(Head(cq).tag)
               /\ tags[Head(cq).tag].server = s
               /\ Head(cq).success]_vars

\* A handle went through start, a shutdown and its successful completion,
\* and start was called on it again: it is still ShutDown.
C15_Witness ==
  \E s \in Servers :
    /\ srv[s].state = "live"
    /\ Lifecycle(s) = "ShutDown"
    /\ srv[s].starts = "again"
    /\ srv[s].running_self_ref

\* ------------------------------------------------------------------ C16
\* forceShutdown is called on a started handle that is not shut down.
ForceShutdownOnStarted(s) ==
  /\ eng[s].started
  /\ ~srv[s].is_shutdown
  /\ ForceShutdown(s)

\* C16: when forceShutdown returns on a started handle that was not yet shut
\* down, the lifecycle state of the handle is ShutDown.
C16_ForcedShutdownImmediate ==
  [][\A s \in Servers :
       ForceShutdownOnStarted(s) => Lifecycle(s)' = "ShutDown"]_vars

\* A successful completion of a shutdown notification of s has been processed
\* by the dispatcher.
ShutdownConfirmed(s) ==
  \E i \in 1..Len(Marshalled) :
    /\ IsShutdown(Marshalled[i].tag)
    /\ tags[Marshalled[i].tag].server = s
    /\ Marshalled[i].success

\* C16 (amended): when forceShutdown returns on a started handle that was not
\* yet shut down, the handle is ShuttingDown: no Server field has changed
\* (is_shutdown is still false, the self-reference is as it was) and the
\* shutdown notification with the internal continuation is outstanding; and
\* a handle is ShutDown only after the dispatcher has processed a successful
\* completion of one of its shutdown notifications.
C16_ForcedShutdownAwaitsDispatcher ==
  /\ [](\A s \in Servers : Lifecycle(s) = "ShutDown" => ShutdownConfirmed(s))
  /\ [][\A s \in Servers :
         ForceShutdownOnStarted(s) =>
           /\ Lifecycle(s)' = "ShuttingDown"
           /\ srv' = srv
           /\ tags'[nextTag].callback = "shutdown_cb"
           /\ tags'[nextTag].status = "pending"]_vars

\* forceShutdown has returned on a started handle and its notification has
\* not completed yet: the handle holds its self-reference and is not
\* ShutDown.
C16_Witness ==
  \E t \in TagIds :
    /\ tags[t].callback = "shutdown_cb"
    /\ tags[t].status = "pending"
    /\ eng[tags[t].server].started
    /\ srv[tags[t].server].running_self_ref
    /\ Lifecycle(tags[t].server) = "ShuttingDown"

\* ------------------------------------------------------------------ C17
\* The step hands the engine n shutdown notifications and c cancel-all
\* requests for server s, nudges the dispatcher once, and binds continuation
\* cb to the one tag it allocates.
Issues(s, n, c, cb) ==
  /\ eng'[s].shutdown_and_notify = eng[s].shutdown_and_notify + n
  /\ eng'[s].cancel_all_calls = eng[s].cancel_all_calls + c
  /\ pending_batches' = pending_batches + 1
  /\ nextTag' = nextTag + 1
  /\ tags'[nextTag].kind = "try_shutdown"
  /\ tags'[nextTag].callback = cb

C18_ForceShutdownNoOpWhenShutDown ==
  [][\A s \in Servers :
       (srv[s].is_shutdown /\ ForceShutdown(s))
         => UNCHANGED <<tags, nextTag, eng, pending_batches, cq, srv>>]_vars

\* A handle whose shutdown has finished is still there to be called, and a
\* tag could still be allocated.
C18_Witness ==
  \E s \in Servers :
    /\ Callable(s)
    /\ srv[s].is_shutdown
    /\ ShutdownConfirmed(s)
    /\ nextTag <= MaxTags

\* ------------------------------------------------------------------ C19
\* C19: the self-reference of a handle is held only if the handle has been
\* started and is_shutdown is false.
C19_SelfRefOnlyWhileRunning ==
  \A s \in Servers :
    srv[s].running_self_ref => (srv[s].starts # "never" /\ ~srv[s].is_shutdown)

\* ------------------------------------------------------------------ C20
\* C20: no shutdown-notify tag outlives the Server its operation points back
\* to, and the dispatcher never runs the hook or builds the result value of
\* a shutdown notification on a destroyed Server.
C20_ShutdownOpOwnerAlive ==
  /\ ~uaf
  /\ \A t \in TagIds :
       (IsShutdown(t) /\ Outstanding(t)) => srv[tags[t].server].state = "live"

====
